---- MODULE Spec2Model ----
(***************************************************************************)
(* Report pipeline of report_lab: the status ledger (db.py and             *)
(* repository.py over one DynamoDB table), the producer (producer.py), the *)
(* worker (lambda_function.py) and the dead-letter reconciler              *)
(* (dlq_handler.py).                                                       *)
(*                                                                         *)
(* Python's None and an absent DynamoDB attribute are both written as the  *)
(* None value of the field's type (NoneKey, NoneMsg, NonePayload,          *)
(* NoneTime), so that every row is a record of one shape.  A key without   *)
(* an item is the row NoRow, whose status is "ABSENT".                     *)
(***************************************************************************)
EXTENDS Integers, Sequences, FiniteSets, TLC

\* ------------------------------------------------------------------ bounds

\* producer.py iterates report_id over range(100); the model iterates over
\* 0 .. NumReports-1.
NumReports == 1

\* datetime.now() takes the values 0 .. MaxClock.  The pipeline runs within the
\* clock reading 0; the callers of the ledger run at a later reading.
MaxClock == 1

\* The put_object calls per object are counted up to MaxPuts.
MaxPuts == 2

\* Records per reconciler invocation.
MaxDlqBatch == 2

\* ------------------------------------------------------------------ values

NoneKey == <<>>

NoneMsg == "None"

NonePayload == {}

NoneTime == 0 - 1

\* models.py Status: the enum repository.py stores.
ModelsStatus == {"CREATED", "QUEUED", "IN_PROGRESS", "UPLOAD_STARTED", "FINISHED", "REJECTED", "FAILED"}

\* base.py Status: the enum producer.py, lambda_function.py and
\* dlq_handler.py import.  It has no REJECTED member.
BaseStatus == {"CREATED", "QUEUED", "IN_PROGRESS", "UPLOAD_STARTED", "FINISHED", "FAILED"}

\* base.py Report: the fields of the pydantic model the worker builds.
BaseReportFields == {"report_id", "batch_no", "status", "s3_key", "payload"}

\* db.py update_report_status: the parameters of its signature.
DbUpdateParams == {"report_id", "batch_no", "status", "s3_key"}

ReportIds == 0 .. (NumReports - 1)

\* batch_no is the producer's start time, int(now.strftime('%Y%m%d%H%M%S')).
BatchNos == 0 .. MaxClock

Keys == ReportIds \X BatchNos

NoRow == [status |-> "ABSENT", s3_key |-> NoneKey, payload |-> NonePayload, error_msg |-> NoneMsg, created_at |-> NoneTime, updated_at |-> NoneTime]

Exists(row) == row.status # "ABSENT"

\* ------------------------------------------------------------- repository.py

\* ConditionExpression of create_report: attribute_not_exists(report_id) AND
\* attribute_not_exists(batch_no), evaluated on the item stored under the key.
CreateCondition(row) == ~Exists(row)

\* The item create_report builds (repository.py and db.py build the same one).
NewItem(status, payload, t) == [status |-> status, s3_key |-> NoneKey, payload |-> payload, error_msg |-> NoneMsg, created_at |-> t, updated_at |-> t]

\* repository.create_report: <<ledger after, created>>.
RepoCreateReport(l, k, payload, t) == IF CreateCondition(l[k]) THEN <<[l EXCEPT ![k] = NewItem("CREATED", payload, t)], TRUE>> ELSE <<l, FALSE>>

\* ConditionExpression of claim_report_for_processing: #status = :queued.  On a
\* key without an item the attribute is missing and the comparison is false.
ClaimConditionLoose(row) == row.status \in {"QUEUED", "IN_PROGRESS"}

ClaimConditionNotFinished(row) == row.status # "FINISHED"

ClaimCondition(row) == row.status = "QUEUED"

\* repository.claim_report_for_processing: <<ledger after, returned value>>.
RepoClaim(l, k, t) == IF ClaimCondition(l[k]) THEN <<[l EXCEPT ![k].status = "IN_PROGRESS", ![k].updated_at = t], TRUE>> ELSE <<l, FALSE>>

\* The UpdateExpression both update_report_status functions build: SET status
\* and updated_at, and s3_key / error_msg only when they are not None.
\* DynamoDB's UpdateItem adds the item when the key has none.
UpdatedRow(row, status, s3_key, error_msg, t) == [row EXCEPT !.status = status, !.updated_at = t, !.s3_key = IF s3_key # NoneKey THEN s3_key ELSE @, !.error_msg = IF error_msg # NoneMsg THEN error_msg ELSE @]

\* repository.update_report_status: the ledger after the call.
RepoUpdateReportStatus(l, k, status, s3_key, error_msg, t) == [l EXCEPT ![k] = UpdatedRow(l[k], status, s3_key, error_msg, t)]

\* ---------------------------------------------------------------------- db.py

\* db.create_report: table.put_item(Item=item) with no condition; it replaces
\* whatever item the key holds.
DbCreateReportLost(l, k, payload, t) == l

DbCreateReport(l, k, payload, t) == [l EXCEPT ![k] = NewItem("CREATED", payload, t)]

\* db.update_report_status: the ledger after the call (no error_msg parameter).
DbUpdateReportStatus(l, k, status, s3_key, t) == [l EXCEPT ![k] = UpdatedRow(l[k], status, s3_key, NoneMsg, t)]

\* A call update_report_status(..., **kw) binds only the names of the
\* signature; any other keyword raises TypeError before the body runs.
DbCallBinds(names) == names \subseteq DbUpdateParams

\* ------------------------------------------------------------------ messages

\* A message text.  wraps = 0: the text of a leaf; wraps = n+1: the JSON text
\* of an object whose "body" member is the text with wraps = n (an SQS
\* delivery record).  Leaves: "job" is the JSON text of a job (report_id,
\* batch_no, payload, ...), "nokeys" the JSON text of an object with neither
\* "body" nor "report_id", "malformed" a text that is not JSON.
MaxWraps == 2

Leaves == {"job", "nokeys", "malformed"}

Texts == [wraps : 0 .. MaxWraps, leaf : Leaves, key : Keys]

\* producer.send_message: json.dumps(report.model_dump(mode="json")).
JobText(k) == [wraps |-> 0, leaf |-> "job", key |-> k]

\* json.dumps(record) of a delivery record whose body is the text t.
DumpsRecord(t) == [t EXCEPT !.wraps = @ + 1]

\* What stands for (report_id, batch_no) where an object has no such fields.
NoKey == <<>>

\* json.loads(t): the parsed object, or ok = FALSE when it raises.  Only a job
\* object has the fields report_id and batch_no; a delivery record has a body.
JsonLoads(t) == [ok |-> ~(t.wraps = 0 /\ t.leaf = "malformed"), hasBody |-> t.wraps > 0, body |-> IF t.wraps > 0 THEN [t EXCEPT !.wraps = @ - 1] ELSE t, hasKeys |-> t.wraps = 0 /\ t.leaf = "job", key |-> IF t.wraps = 0 /\ t.leaf = "job" THEN t.key ELSE NoKey]

\* s3_key = f"reports/batch-{batch_no}/{report_id}/portfolio_dashboard_{now}.pdf"
S3KeyOf(k, t) == <<"reports", k[2], k[1], t>>

\* The object keys of the bucket; s3[o] is the number of put_object calls that
\* stored o (0: the bucket does not hold o).
ObjectKeys == {S3KeyOf(k, t) : k \in Keys, t \in 0 .. MaxClock}

\* ------------------------------------------------------------------- producer

\* producer.PORTFOLIO, cut down to one stock and the benchmark; with
\* n = 5 >= len(stocks) get_random_portfolio returns all of it.
Tickers == {"AAPL", "SPY"}

\* ------------------------------------------------- market_data.py: the cache

\* An item of the markets table.  exists: get_item returns it; records: it
\* holds a non-empty list of bars; is_valid and updated_at: its attributes of
\* these names.  NoItem: no item under the ticker.
NoItem == [exists |-> FALSE, records |-> FALSE, is_valid |-> TRUE, updated_at |-> NoneTime]

\* store_ticker_data(ticker, hist): put_item of a whole new item.
StoredItem(t) == [exists |-> TRUE, records |-> TRUE, is_valid |-> TRUE, updated_at |-> t]

\* mark_ticker_as_invalid(ticker): update_item SET is_valid = false,
\* updated_at = now; an item that is missing is created by it.
MarkedItem(item, t) == [item EXCEPT !.exists = TRUE, !.is_valid = FALSE, !.updated_at = t]

\* What step 1 of _fetch_single_ticker asks of get_market_data's item: it is
\* there, has "records", and the frame built from them is not empty.
Cached(item) == item.exists /\ item.records

Portfolio == {<<"AAPL", 9>>, <<"SPY", 20>>}

\* ------------------------------------------------------------------ variables

VARIABLES ledger, now, cache, jobQueue, dlq, s3, faults, producer, worker, recon, caller, fetch, calc

vars == <<ledger, now, cache, jobQueue, dlq, s3, faults, producer, worker, recon, caller, fetch, calc>>

\* A future whose thread has not finished.
NoResult == [found |-> FALSE, source |-> "pending", stored |-> FALSE, called_live |-> FALSE]

\* One call of lambda_function.fetch_data, before it starts.  tickers: the
\* list it is called with; env: what each ticker's fetch meets, <<dbOk, live,
\* storeOk>>; running: the tickers whose thread has not finished; pre: what
\* the cache held for the ticker when its thread ran; got: the futures'
\* outcomes; next: the future the loop collects next; data: the mapping built
\* so far, as pairs <<ticker, source>>; exc: what left fetch_data.
IdleFetch == [pc |-> "idle", tickers |-> <<>>, env |-> [t \in Tickers |-> <<TRUE, TRUE, TRUE>>], running |-> {}, pre |-> [t \in Tickers |-> FALSE], got |-> [t \in Tickers |-> NoResult], next |-> 1, data |-> {}, exc |-> "none"]

\* One call of calculate_portfolio_metrics or calculate_advanced_metrics,
\* before it starts.  fn: the function; args: its arguments; out: what it
\* returned; exc: what left it.
IdleCalc == [pc |-> "idle", fn |-> "none", args |-> <<>>, out |-> <<>>, exc |-> "none"]

\* ------------------------------------------ callers of the ledger functions

Callers == {"c1", "c2"}

\* The keys the callers use.
RepoKeys == {<<0, 0>>, <<0, 1>>}

SomeS3Key == S3KeyOf(<<0, 0>>, 0)

SomeError == "some error"

IdleCaller == [pc |-> "idle", op |-> "none", key |-> <<0, 0>>, up |-> TRUE, ret |-> "none", pre |-> NoRow, row |-> NoRow]

\* A row as some earlier calls left it, written at time 0.
OldRows == {NoRow} \cup {NewItem(st, Portfolio, 0) : st \in ModelsStatus}

\* The optional arguments of a call of update_report_status: <<s3_key, error_msg>>.
OptionalArgs == {<<NoneKey, NoneMsg>>, <<SomeS3Key, NoneMsg>>, <<NoneKey, SomeError>>}

Quiet == /\ cache = [t \in Tickers |-> NoItem]
         /\ jobQueue = [k \in Keys |-> 0]
         /\ dlq = {}
         /\ s3 = [o \in ObjectKeys |-> 0]
         /\ faults = FALSE

RepoInit == /\ ledger \in [Keys -> OldRows]
            /\ \A k \in Keys \ RepoKeys : ledger[k] = NoRow
            /\ now \in 1 .. MaxClock
            /\ Quiet
            /\ producer = [pc |-> "idle", i |-> 0, batch_no |-> 0]
            /\ worker = [w \in {"w1", "w2"} |-> [pc |-> "idle", records |-> <<>>, idx |-> 0, processed |-> 0, exc |-> "none", s3_key |-> NoneKey]]
            /\ recon = [pc |-> "idle", records |-> <<>>, idx |-> 0, processed |-> 0, marked |-> 0, err |-> "none"]
            /\ caller = [c \in Callers |-> IdleCaller]
            /\ fetch = IdleFetch
            /\ calc = IdleCalc

RepoFrame == UNCHANGED <<now, cache, jobQueue, dlq, s3, faults, producer, worker, recon, fetch, calc>>

\* One call of repository.create_report(report).  up = FALSE: the store
\* answers with another ClientError, which create_report re-raises.
CallCreate(c, k) == /\ caller[c].pc = "idle"
                    /\ \E up \in BOOLEAN :
                         LET res == RepoCreateReport(ledger, k, Portfolio, now) IN
                         /\ ledger' = IF up THEN res[1] ELSE ledger
                         /\ caller' = [caller EXCEPT ![c] = [pc |-> "done", op |-> "create", key |-> k, up |-> up, ret |-> IF ~up THEN "raised" ELSE IF res[2] THEN "true" ELSE "false", pre |-> ledger[k], row |-> IF up THEN NewItem("CREATED", Portfolio, now) ELSE NoRow]]
                    /\ RepoFrame

\* One call of db.create_report(report), the producer's; it returns the item.
CallDbCreate(c, k) == /\ caller[c].pc = "idle"
                      /\ \E up \in BOOLEAN :
                           /\ ledger' = IF up THEN DbCreateReport(ledger, k, Portfolio, now) ELSE ledger
                           /\ caller' = [caller EXCEPT ![c] = [pc |-> "done", op |-> "db_create", key |-> k, up |-> up, ret |-> IF up THEN "row" ELSE "raised", pre |-> ledger[k], row |-> IF up THEN NewItem("CREATED", Portfolio, now) ELSE NoRow]]
                      /\ RepoFrame

\* One call of repository.claim_report_for_processing(report_id, batch_no).
CallClaim(c, k) == /\ caller[c].pc = "idle"
                   /\ \E up \in BOOLEAN :
                        LET res == RepoClaim(ledger, k, now) IN
                        /\ ledger' = IF up THEN res[1] ELSE ledger
                        /\ caller' = [caller EXCEPT ![c] = [pc |-> "done", op |-> "claim", key |-> k, up |-> up, ret |-> IF ~up THEN "raised" ELSE IF res[2] THEN "true" ELSE "false", pre |-> ledger[k], row |-> NoRow]]
                   /\ RepoFrame

\* One call of repository.update_report_status(report_id, batch_no, status,
\* s3_key, error_msg); it returns the item as it is after the update.
CallUpdate(c, k, status, s3_key, error_msg) == /\ caller[c].pc = "idle"
                                               /\ \E up \in BOOLEAN :
                                                    LET after == RepoUpdateReportStatus(ledger, k, status, s3_key, error_msg, now) IN
                                                    /\ ledger' = IF up THEN after ELSE ledger
                                                    /\ caller' = [caller EXCEPT ![c] = [pc |-> "done", op |-> "update", key |-> k, up |-> up, ret |-> IF up THEN "row" ELSE "raised", pre |-> ledger[k], row |-> IF up THEN after[k] ELSE NoRow]]
                                               /\ RepoFrame

RepoNext == \/ \E c \in Callers, k \in RepoKeys : CallCreate(c, k)
            \/ \E c \in Callers, k \in RepoKeys : CallDbCreate(c, k)
            \/ \E c \in Callers, k \in RepoKeys : CallClaim(c, k)
            \/ \E c \in Callers, k \in RepoKeys, st \in ModelsStatus, o \in OptionalArgs : CallUpdate(c, k, st, o[1], o[2])

RepoSpec == RepoInit /\ [][RepoNext]_vars

\* --------------------------------------------------------------- the pipeline

Workers == {"w1", "w2"}

\* Sequences of 1 .. n different members of S.
Batches(S, n) == {q \in UNION {[1 .. m -> S] : m \in 1 .. n} : \A a, b \in DOMAIN q : a # b => q[a] # q[b]}

IdleProducer == [pc |-> "idle", i |-> 0, batch_no |-> 0]

IdleWorker == [pc |-> "idle", records |-> <<>>, idx |-> 0, processed |-> 0, exc |-> "none", s3_key |-> NoneKey]

IdleRecon == [pc |-> "idle", records |-> <<>>, idx |-> 0, processed |-> 0, marked |-> 0, err |-> "none", key |-> NoKey]

Init == /\ ledger = [k \in Keys |-> NoRow]
        /\ now = 0
        /\ cache \in {[t \in Tickers |-> i] : i \in {NoItem, StoredItem(0)}}
        /\ jobQueue = [k \in Keys |-> 0]
        /\ dlq = {}
        /\ s3 = [o \in ObjectKeys |-> 0]
        /\ faults = FALSE
        /\ producer = IdleProducer
        /\ worker = [w \in Workers |-> IdleWorker]
        /\ recon = IdleRecon
        /\ caller = [c \in Callers |-> IdleCaller]
        /\ fetch = IdleFetch
        /\ calc = IdleCalc

\* ---- producer.main

ProducerKey == <<producer.i, producer.batch_no>>

\* The loop's next iteration, or the end of main().
ProducerAdvance == IF producer.i + 1 < NumReports THEN [producer EXCEPT !.pc = "create", !.i = @ + 1] ELSE [producer EXCEPT !.pc = "done"]

\* main() starts: batch_no = int(datetime.now().strftime('%Y%m%d%H%M%S')).
ProducerStart == /\ producer.pc = "idle"
                 /\ producer' = [pc |-> "create", i |-> 0, batch_no |-> now]
                 /\ UNCHANGED <<ledger, now, cache, jobQueue, dlq, s3, faults, worker, recon, caller, fetch, calc>>

\* create_report(report), outside any try: a store error ends main().
ProducerCreate == /\ producer.pc = "create"
                  /\ \E ok \in BOOLEAN :
                       /\ ledger' = IF ok THEN DbCreateReport(ledger, ProducerKey, Portfolio, now) ELSE ledger
                       /\ producer' = [producer EXCEPT !.pc = IF ok THEN "send" ELSE "crashed"]
                       /\ faults' = (faults \/ ~ok)
                  /\ UNCHANGED <<now, cache, jobQueue, dlq, s3, worker, recon, caller, fetch, calc>>

\* send_message(report) inside the try.
ProducerSend == /\ producer.pc = "send"
                /\ \E ok \in BOOLEAN :
                     /\ jobQueue' = IF ok THEN [jobQueue EXCEPT ![ProducerKey] = @ + 1] ELSE jobQueue
                     /\ producer' = [producer EXCEPT !.pc = IF ok THEN "mark" ELSE "except"]
                     /\ faults' = (faults \/ ~ok)
                /\ UNCHANGED <<ledger, now, cache, dlq, s3, worker, recon, caller, fetch, calc>>

\* update_report_status(..., Status.QUEUED) inside the try, after the send.
ProducerMarkQueued == /\ producer.pc = "mark"
                      /\ \E ok \in BOOLEAN :
                           /\ ledger' = IF ok THEN DbUpdateReportStatus(ledger, ProducerKey, "QUEUED", NoneKey, now) ELSE ledger
                           /\ producer' = IF ok THEN ProducerAdvance ELSE [producer EXCEPT !.pc = "except"]
                           /\ faults' = (faults \/ ~ok)
                      /\ UNCHANGED <<now, cache, jobQueue, dlq, s3, worker, recon, caller, fetch, calc>>

\* The except clause: update_report_status(..., Status.FAILED, error_msg=...).
\* When the call does not bind, its TypeError leaves main().
ProducerExcept == /\ producer.pc = "except"
                  /\ ledger' = IF DbCallBinds({"error_msg"}) THEN [ledger EXCEPT ![ProducerKey] = UpdatedRow(@, "FAILED", NoneKey, "Failed to Send Message to Queue", now)] ELSE ledger
                  /\ producer' = IF DbCallBinds({"error_msg"}) THEN ProducerAdvance ELSE [producer EXCEPT !.pc = "crashed"]
                  /\ UNCHANGED <<now, cache, jobQueue, dlq, s3, faults, worker, recon, caller, fetch, calc>>

\* ---- lambda_function.lambda_handler

\* body = json.loads(record["body"]); the job the current record names.
WorkerKey(w) == JsonLoads(worker[w].records[worker[w].idx]).key

\* After a record: reports.append(...), then the next record or the return.
WorkerAdvance(w, st) == IF st.idx < Len(st.records) THEN [st EXCEPT !.pc = "mark_in_progress", !.idx = @ + 1, !.exc = "none", !.s3_key = NoneKey] ELSE [st EXCEPT !.pc = "returned"]

\* The queue invokes the handler with the job messages ks (the pipeline's
\* queue hands out one message per invocation).  A message stays in the queue
\* until the invocation returns, and may be handed out again meanwhile
\* (at-least-once delivery).
WorkerInvoke(w, ks) == /\ worker[w].pc = "idle"
                       /\ \A n \in DOMAIN ks : jobQueue[ks[n]] > 0
                       /\ worker' = [worker EXCEPT ![w] = [IdleWorker EXCEPT !.pc = "mark_in_progress", !.records = [n \in DOMAIN ks |-> JobText(ks[n])], !.idx = 1]]
                       /\ UNCHANGED <<ledger, now, cache, jobQueue, dlq, s3, faults, producer, recon, caller, fetch, calc>>

\* update_report_status(..., Status.IN_PROGRESS): db.py's unconditional update.
WorkerMarkInProgress(w) == /\ worker[w].pc = "mark_in_progress"
                           /\ \E ok \in BOOLEAN :
                                /\ ledger' = IF ok THEN DbUpdateReportStatus(ledger, WorkerKey(w), "IN_PROGRESS", NoneKey, now) ELSE ledger
                                /\ worker' = [worker EXCEPT ![w] = IF ok THEN [@ EXCEPT !.pc = "generate"] ELSE [@ EXCEPT !.pc = "except", !.exc = "infra"]]
                                /\ faults' = (faults \/ ~ok)
                           /\ UNCHANGED <<now, cache, jobQueue, dlq, s3, producer, recon, caller, fetch, calc>>

\* _fetch_single_ticker for one ticker.  cached: the cache holds non-empty
\* history; dbOk: the cache read works; live: the live source returns
\* non-empty history; storeOk: store_ticker_data works.  A failed cache read
\* falls back to the live source; an error of the live source or of the store
\* ends in TickerNotFoundException.  called_live: yf.Ticker(ticker).history
\* was called.
FetchSingle(cached, dbOk, live, storeOk) == IF dbOk /\ cached THEN [found |-> TRUE, source |-> "db", stored |-> FALSE, called_live |-> FALSE] ELSE IF live /\ storeOk THEN [found |-> TRUE, source |-> "api", stored |-> TRUE, called_live |-> TRUE] ELSE [found |-> FALSE, source |-> "none", stored |-> FALSE, called_live |-> TRUE]

\* What a fetch may meet, <<dbOk, live, storeOk>>: all works; the cache read
\* fails; the cache read and the live source fail; the cache read and the
\* store fail; the live source fails.
FetchEnvs == {<<TRUE, TRUE, TRUE>>, <<FALSE, TRUE, TRUE>>, <<FALSE, FALSE, TRUE>>, <<FALSE, TRUE, FALSE>>, <<TRUE, FALSE, TRUE>>}

\* collect_data_and_generate_report(payload): fetch_data over the payload's
\* tickers, then metrics and the PDF (renderOk: they raise nothing).
WorkerGenerate(w) == /\ worker[w].pc = "generate"
                     /\ \E env \in [Tickers -> FetchEnvs], renderOk \in BOOLEAN :
                          LET got == [t \in Tickers |-> FetchSingle(Cached(cache[t]), env[t][1], env[t][2], env[t][3])]
                              allFound == \A t \in Tickers : got[t].found
                          IN /\ cache' = [t \in Tickers |-> IF got[t].stored THEN StoredItem(now) ELSE cache[t]]
                             /\ worker' = [worker EXCEPT ![w] = IF ~allFound THEN [@ EXCEPT !.pc = "except", !.exc = "notfound"] ELSE IF ~renderOk THEN [@ EXCEPT !.pc = "except", !.exc = "infra"] ELSE [@ EXCEPT !.pc = "mark_upload"]]
                             /\ faults' = (faults \/ ~renderOk \/ \E t \in Tickers : got[t].source # "db")
                     /\ UNCHANGED <<ledger, now, jobQueue, dlq, s3, producer, recon, caller, fetch, calc>>

\* update_report_status(..., Status.UPLOAD_STARTED), then the key is built.
WorkerMarkUpload(w) == /\ worker[w].pc = "mark_upload"
                       /\ \E ok \in BOOLEAN :
                            /\ ledger' = IF ok THEN DbUpdateReportStatus(ledger, WorkerKey(w), "UPLOAD_STARTED", NoneKey, now) ELSE ledger
                            /\ worker' = [worker EXCEPT ![w] = IF ok THEN [@ EXCEPT !.pc = "put", !.s3_key = S3KeyOf(WorkerKey(w), now)] ELSE [@ EXCEPT !.pc = "except", !.exc = "infra"]]
                            /\ faults' = (faults \/ ~ok)
                       /\ UNCHANGED <<now, cache, jobQueue, dlq, s3, producer, recon, caller, fetch, calc>>

\* A put_object whose failure goes unnoticed: nothing is stored and the
\* handler goes on.
WorkerPutSkipped(w) == /\ worker[w].pc = "put"
                       /\ worker' = [worker EXCEPT ![w] = [@ EXCEPT !.pc = "mark_finished"]]
                       /\ UNCHANGED <<ledger, now, cache, jobQueue, dlq, s3, faults, producer, recon, caller, fetch, calc>>

\* s3_client.put_object(Key=s3_key, Body=pdf_content).
WorkerPut(w) == /\ worker[w].pc = "put"
                /\ \E ok \in BOOLEAN :
                     /\ s3' = IF ok THEN [s3 EXCEPT ![worker[w].s3_key] = IF @ < MaxPuts THEN @ + 1 ELSE @] ELSE s3
                     /\ worker' = [worker EXCEPT ![w] = IF ok THEN [@ EXCEPT !.pc = "mark_finished"] ELSE [@ EXCEPT !.pc = "except", !.exc = "infra"]]
                     /\ faults' = (faults \/ ~ok)
                /\ UNCHANGED <<ledger, now, cache, jobQueue, dlq, producer, recon, caller, fetch, calc>>

\* update_report_status(..., Status.FINISHED, s3_key=s3_key); processed_count += 1.
WorkerMarkFinished(w) == /\ worker[w].pc = "mark_finished"
                         /\ \E ok \in BOOLEAN :
                              /\ ledger' = IF ok THEN DbUpdateReportStatus(ledger, WorkerKey(w), "FINISHED", worker[w].s3_key, now) ELSE ledger
                              /\ worker' = [worker EXCEPT ![w] = IF ok THEN WorkerAdvance(w, [@ EXCEPT !.processed = @ + 1]) ELSE [@ EXCEPT !.pc = "except", !.exc = "infra"]]
                              /\ faults' = (faults \/ ~ok)
                         /\ UNCHANGED <<now, cache, jobQueue, dlq, s3, producer, recon, caller, fetch, calc>>

\* The TickerNotFoundException clause runs to its end only if Status.REJECTED
\* exists, Report has a field error_msg and update_report_status takes
\* error_msg; otherwise the clause itself raises (AttributeError, ValueError,
\* TypeError) and that error leaves lambda_handler.
RejectRuns == "REJECTED" \in BaseStatus /\ "error_msg" \in BaseReportFields /\ DbCallBinds({"error_msg"})

\* What the infrastructure-error clause (except Exception) writes to the
\* ledger before it re-raises: nothing.
InfraClauseMarksFailed(l, k, t) == [l EXCEPT ![k] = UpdatedRow(l[k], "FAILED", NoneKey, NoneMsg, t)]

InfraClause(l, k, t) == l

\* The except clauses of the per-record try.
WorkerExcept(w) == /\ worker[w].pc = "except"
                   /\ ledger' = IF worker[w].exc = "notfound" THEN (IF RejectRuns THEN [ledger EXCEPT ![WorkerKey(w)] = UpdatedRow(@, "REJECTED", NoneKey, "Failed to fetch data", now)] ELSE ledger) ELSE InfraClause(ledger, WorkerKey(w), now)
                   /\ dlq' = IF worker[w].exc = "notfound" /\ RejectRuns THEN dlq \cup {DumpsRecord(worker[w].records[worker[w].idx])} ELSE dlq
                   /\ worker' = [worker EXCEPT ![w] = IF worker[w].exc = "notfound" /\ RejectRuns THEN WorkerAdvance(w, @) ELSE [@ EXCEPT !.pc = "raised"]]
                   /\ UNCHANGED <<now, cache, jobQueue, s3, faults, producer, recon, caller, fetch, calc>>

\* The job messages of the invocation's batch.
BatchHas(w, k) == \E n \in DOMAIN worker[w].records : worker[w].records[n] = JobText(k)

\* The invocation is over.  After a return the queue deletes the batch's
\* messages.  After a raise it keeps them for redelivery, or, when their
\* receive count is used up (redrive), moves them to the dead-letter queue as
\* they are.
WorkerEnd(w) == /\ worker[w].pc \in {"returned", "raised"}
                /\ \E redrive \in BOOLEAN :
                     LET leaves == {k \in Keys : BatchHas(w, k) /\ jobQueue[k] > 0 /\ (worker[w].pc = "returned" \/ redrive)}
                     IN /\ jobQueue' = [k \in Keys |-> IF k \in leaves THEN jobQueue[k] - 1 ELSE jobQueue[k]]
                        /\ dlq' = IF worker[w].pc = "raised" THEN dlq \cup {JobText(k) : k \in leaves} ELSE dlq
                /\ worker' = [worker EXCEPT ![w] = IdleWorker]
                /\ UNCHANGED <<ledger, now, cache, s3, faults, producer, recon, caller, fetch, calc>>

\* ---- dlq_handler.lambda_handler

FailedMsg == "Marked Report as Failed to process and informed concerned stakeholders"

\* The statements of the loop body that stand inside its try block, each
\* named by what it raises: parse: json.loads(record["body"]); unwrap:
\* json.loads(body["body"]) when "body" is in body; keys: inner["report_id"],
\* inner["batch_no"]; bind: the call of update_report_status does not bind its
\* arguments; store: the store fails.
ReconTryStoreOnly == {"store"}

ReconTry == {"parse", "unwrap", "keys", "bind", "store"}

\* An unwrapping that is left out: inner = body, whatever body holds.
ReconInnerRaw(t) == JsonLoads(t)

\* inner: body["body"] parsed if "body" is in body, else body itself.
ReconInner(t) == LET body == JsonLoads(t) IN IF body.hasBody THEN JsonLoads(body.body) ELSE body

\* The first statement of the loop body that raises for the text t, "none"
\* when none does (storeOk: the store works).
ReconRaises(t, storeOk) == LET body == JsonLoads(t)
                               inner == ReconInner(t)
                           IN IF ~body.ok THEN "parse" ELSE IF ~inner.ok THEN "unwrap" ELSE IF ~inner.hasKeys THEN "keys" ELSE IF ~DbCallBinds({"error_msg"}) THEN "bind" ELSE IF ~storeOk THEN "store" ELSE "none"

\* (report_id, batch_no) of the text t, unwrapped one level if it has a "body".
ReconKey(t) == ReconInner(t).key

ReconAdvance(st) == IF st.idx < Len(st.records) THEN [st EXCEPT !.idx = @ + 1] ELSE [st EXCEPT !.pc = "returned"]

\* The dead-letter queue invokes the handler with a batch of its messages.
ReconInvoke(ts) == /\ recon.pc = "idle"
                   /\ recon' = [IdleRecon EXCEPT !.pc = "loop", !.records = ts, !.idx = 1]
                   /\ UNCHANGED <<ledger, now, cache, jobQueue, dlq, s3, faults, producer, worker, caller, fetch, calc>>

\* One iteration of the loop over event["Records"].  key: the report_id and
\* batch_no this iteration read from inner, NoKey if it raised before.
ReconStep == /\ recon.pc = "loop"
             /\ \E storeOk \in BOOLEAN :
                  LET t == recon.records[recon.idx]
                      raises == ReconRaises(t, storeOk)
                      k == ReconKey(t)
                      read == IF raises \in {"parse", "unwrap", "keys"} THEN NoKey ELSE k
                  IN /\ ledger' = IF raises = "none" THEN [ledger EXCEPT ![k] = UpdatedRow(@, "FAILED", NoneKey, FailedMsg, now)] ELSE ledger
                     /\ recon' = IF raises = "none" THEN ReconAdvance([recon EXCEPT !.processed = @ + 1, !.marked = @ + 1, !.err = "none", !.key = read]) ELSE IF raises \in ReconTry THEN ReconAdvance([recon EXCEPT !.err = raises, !.key = read]) ELSE [recon EXCEPT !.pc = "raised", !.err = raises, !.key = read]
             /\ UNCHANGED <<now, cache, jobQueue, dlq, s3, faults, producer, worker, caller, fetch, calc>>

\* The invocation is over: after a return the dead-letter queue deletes the
\* batch's messages, after a raise it keeps them.
ReconEnd == /\ recon.pc \in {"returned", "raised"}
            /\ dlq' = IF recon.pc = "returned" THEN dlq \ {recon.records[n] : n \in DOMAIN recon.records} ELSE dlq
            /\ recon' = IdleRecon
            /\ UNCHANGED <<ledger, now, cache, jobQueue, s3, faults, producer, worker, caller, fetch, calc>>

\* ---- the pipeline's next-state relation

Next == \/ ProducerStart
        \/ ProducerCreate
        \/ ProducerSend
        \/ ProducerMarkQueued
        \/ ProducerExcept
        \/ \E w \in Workers, k \in Keys : WorkerInvoke(w, <<k>>)
        \/ \E w \in Workers : WorkerMarkInProgress(w)
        \/ \E w \in Workers : WorkerGenerate(w)
        \/ \E w \in Workers : WorkerMarkUpload(w)
        \/ \E w \in Workers : WorkerPut(w)
        \/ \E w \in Workers : WorkerMarkFinished(w)
        \/ \E w \in Workers : WorkerExcept(w)
        \/ \E w \in Workers : WorkerEnd(w)

Spec == Init /\ [][Next]_vars

\* ---- the reconciler alone, on any batch

\* The texts a dead-letter message may hold: jobs of RepoKeys, wrapped or
\* not, and texts that name no job.
DlqTexts == {t \in Texts : t.key \in RepoKeys /\ (t.leaf # "job" => t.key = <<0, 0>>)}

DlqInit == /\ ledger \in [Keys -> {NoRow} \cup {NewItem(st, Portfolio, 0) : st \in {"IN_PROGRESS", "FINISHED"}}]
           /\ \A k \in Keys \ RepoKeys : ledger[k] = NoRow
           /\ now \in 1 .. MaxClock
           /\ cache = [t \in Tickers |-> NoItem]
           /\ jobQueue = [k \in Keys |-> 0]
           /\ dlq \in {d \in SUBSET DlqTexts : Cardinality(d) \in 1 .. MaxDlqBatch}
           /\ s3 = [o \in ObjectKeys |-> 0]
           /\ faults = FALSE
           /\ producer = IdleProducer
           /\ worker = [w \in Workers |-> IdleWorker]
           /\ recon = IdleRecon
           /\ caller = [c \in Callers |-> IdleCaller]
           /\ fetch = IdleFetch
           /\ calc = IdleCalc

DlqNext == \/ \E ts \in Batches(dlq, MaxDlqBatch) : ReconInvoke(ts)
           \/ ReconStep
           \/ ReconEnd

DlqSpec == DlqInit /\ [][DlqNext]_vars


\* ---- lambda_function.fetch_data alone, on any list of tickers

\* Lists of different tickers, the empty list included (list(portfolio.keys())).
TickerLists == {<<>>} \cup Batches(Tickers, Cardinality(Tickers))

\* What a fetch may meet in general: every <<dbOk, live, storeOk>>.
AllEnvs == BOOLEAN \X BOOLEAN \X BOOLEAN

\* What the loop over the futures does with a finished future:
\* data[ticker] = hist, or the future's exception leaves fetch_data.
CollectSkipsFailed(r) == IF r.found THEN "add" ELSE "skip"

Collect(r) == IF r.found THEN "add" ELSE "raise"

FetchInit == /\ ledger = [k \in Keys |-> NoRow]
             /\ now = 0
             /\ cache \in [Tickers -> {NoItem, StoredItem(0)}]
             /\ jobQueue = [k \in Keys |-> 0]
             /\ dlq = {}
             /\ s3 = [o \in ObjectKeys |-> 0]
             /\ faults = FALSE
             /\ producer = IdleProducer
             /\ worker = [w \in Workers |-> IdleWorker]
             /\ recon = IdleRecon
             /\ caller = [c \in Callers |-> IdleCaller]
             /\ fetch = IdleFetch
             /\ calc = IdleCalc

FetchFrame == UNCHANGED <<ledger, now, jobQueue, dlq, s3, faults, producer, worker, recon, caller, calc>>

\* fetch_data(tickers): ThreadPoolExecutor(max_workers=len(tickers)) raises
\* ValueError for an empty list; otherwise every ticker's fetch is submitted.
FetchStart(ts, env) == /\ fetch.pc = "idle"
                       /\ fetch' = IF Len(ts) = 0 THEN [fetch EXCEPT !.pc = "raised", !.exc = "ValueError"] ELSE [fetch EXCEPT !.pc = "collect", !.tickers = ts, !.env = env, !.running = {ts[n] : n \in DOMAIN ts}]
                       /\ UNCHANGED cache
                       /\ FetchFrame

\* The pool runs _fetch_single_ticker(t, period) to its end, at any time
\* after the submit, also while fetch_data unwinds.
FetchThread(t) == /\ fetch.pc \in {"collect", "unwind"}
                  /\ t \in fetch.running
                  /\ LET r == FetchSingle(Cached(cache[t]), fetch.env[t][1], fetch.env[t][2], fetch.env[t][3])
                     IN /\ cache' = [cache EXCEPT ![t] = IF r.stored THEN StoredItem(now) ELSE @]
                        /\ fetch' = [fetch EXCEPT !.running = @ \ {t}, !.pre[t] = Cached(cache[t]), !.got[t] = r]
                  /\ FetchFrame

\* for future in futures: future.result() of the next future, in the order
\* of submission, once its thread has finished.
FetchCollect == /\ fetch.pc = "collect"
                /\ fetch.next <= Len(fetch.tickers)
                /\ fetch.tickers[fetch.next] \notin fetch.running
                /\ LET t == fetch.tickers[fetch.next]
                       r == fetch.got[t]
                   IN fetch' = IF Collect(r) = "add" THEN [fetch EXCEPT !.next = @ + 1, !.data = @ \cup {<<t, r.source>>}] ELSE IF Collect(r) = "raise" THEN [fetch EXCEPT !.pc = "unwind", !.exc = "TickerNotFoundException"] ELSE [fetch EXCEPT !.next = @ + 1]
                /\ UNCHANGED cache
                /\ FetchFrame

\* The with block ends, which waits for every thread: return data, or the
\* exception leaves fetch_data.
FetchExit == /\ fetch.running = {}
             /\ \/ fetch.pc = "collect" /\ fetch.next > Len(fetch.tickers) /\ fetch' = [fetch EXCEPT !.pc = "returned"]
                \/ fetch.pc = "unwind" /\ fetch' = [fetch EXCEPT !.pc = "raised"]
             /\ UNCHANGED cache
             /\ FetchFrame

FetchNext == \/ \E ts \in TickerLists, env \in [Tickers -> AllEnvs] : FetchStart(ts, env)
             \/ \E t \in Tickers : FetchThread(t)
             \/ FetchCollect
             \/ FetchExit

FetchSpec == FetchInit /\ [][FetchNext]_vars


\* ---- one worker alone, on batches of several job messages

\* The invocation stops where it is (the process is killed, or the function
\* times out): no except clause runs, the messages of its batch stay in the
\* queue and are delivered again.
WorkerCrash(w) == /\ worker[w].pc \notin {"idle", "returned", "raised"}
                  /\ worker' = [worker EXCEPT ![w] = IdleWorker]
                  /\ faults' = TRUE
                  /\ UNCHANGED <<ledger, now, cache, jobQueue, dlq, s3, producer, recon, caller, fetch, calc>>

\* The jobs of RepoKeys are created and queued, their messages are in the
\* queue; the queue hands the worker batches of them.
BatchInit == /\ ledger = [k \in Keys |-> IF k \in RepoKeys THEN NewItem("QUEUED", Portfolio, 0) ELSE NoRow]
             /\ now \in 1 .. MaxClock
             /\ cache \in [Tickers -> {NoItem, StoredItem(0)}]
             /\ jobQueue = [k \in Keys |-> IF k \in RepoKeys THEN 1 ELSE 0]
             /\ dlq = {}
             /\ s3 = [o \in ObjectKeys |-> 0]
             /\ faults = FALSE
             /\ producer = IdleProducer
             /\ worker = [w \in Workers |-> IdleWorker]
             /\ recon = IdleRecon
             /\ caller = [c \in Callers |-> IdleCaller]
             /\ fetch = IdleFetch
             /\ calc = IdleCalc

BatchNext == \/ \E ks \in Batches(RepoKeys, Cardinality(RepoKeys)) : WorkerInvoke("w1", ks)
             \/ WorkerMarkInProgress("w1")
             \/ WorkerGenerate("w1")
             \/ WorkerMarkUpload("w1")
             \/ WorkerPut("w1")
             \/ WorkerMarkFinished("w1")
             \/ WorkerExcept("w1")
             \/ WorkerEnd("w1")
             \/ WorkerCrash("w1")

BatchSpec == BatchInit /\ [][BatchNext]_vars


\* ---- the pipeline when nothing fails and every ticker is in the cache

LiveInit == Init /\ cache = [t \in Tickers |-> StoredItem(0)]

\* The steps of producer and workers in which no call fails.
ProducerLive == \/ ProducerStart
                \/ ProducerCreate /\ ~faults'
                \/ ProducerSend /\ ~faults'
                \/ ProducerMarkQueued /\ ~faults'

WorkerLive(w) == \/ \E k \in Keys : WorkerInvoke(w, <<k>>)
                 \/ WorkerMarkInProgress(w) /\ ~faults'
                 \/ WorkerGenerate(w) /\ ~faults'
                 \/ WorkerMarkUpload(w) /\ ~faults'
                 \/ WorkerPut(w) /\ ~faults'
                 \/ WorkerMarkFinished(w) /\ ~faults'
                 \/ WorkerEnd(w)

LiveNext == \/ ProducerLive
            \/ \E w \in Workers : WorkerLive(w)

\* Fair scheduling: the producer process and every worker invocation keep
\* running, and the queue keeps delivering the messages it holds.
LiveSpec == LiveInit /\ [][LiveNext]_vars /\ WF_vars(ProducerLive) /\ \A w \in Workers : WF_vars(WorkerLive(w))


\* ---- one caller of update_report_status, repository.py's or db.py's

\* Rows as earlier calls left them, some with an s3_key or an error_msg.
StoredRows == OldRows \cup {[NewItem("FINISHED", Portfolio, 0) EXCEPT !.s3_key = S3KeyOf(<<0, 1>>, 0)], [NewItem("REJECTED", Portfolio, 0) EXCEPT !.error_msg = "Failed to fetch data"]}

\* The optional keywords a call passes, given its <<s3_key, error_msg>>.
Passed(s3_key, error_msg) == (IF s3_key # NoneKey THEN {"s3_key"} ELSE {}) \cup (IF error_msg # NoneMsg THEN {"error_msg"} ELSE {})

UpdateInit == /\ ledger \in [Keys -> StoredRows]
              /\ \A k \in Keys \ RepoKeys : ledger[k] = NoRow
              /\ now \in 1 .. MaxClock
              /\ Quiet
              /\ producer = IdleProducer
              /\ worker = [w \in Workers |-> IdleWorker]
              /\ recon = IdleRecon
              /\ caller = [c \in Callers |-> IdleCaller]
              /\ fetch = IdleFetch
              /\ calc = IdleCalc

\* One call update_report_status(report_id, batch_no, status, s3_key=...,
\* error_msg=...) of the module fn ("repository" or "db"); a None argument is
\* one that is not passed.  db.py's function raises TypeError for error_msg
\* before it reaches the store.  up = FALSE: the store raises.
CallUpdateStatus(c, fn, k, status, s3_key, error_msg) == /\ caller[c].pc = "idle"
                                                         /\ \E up \in BOOLEAN :
                                                              LET binds == fn = "repository" \/ DbCallBinds(Passed(s3_key, error_msg))
                                                                  after == IF fn = "repository" THEN RepoUpdateReportStatus(ledger, k, status, s3_key, error_msg, now) ELSE DbUpdateReportStatus(ledger, k, status, s3_key, now)
                                                                  done == binds /\ up
                                                              IN /\ ledger' = IF done THEN after ELSE ledger
                                                                 /\ caller' = [caller EXCEPT ![c] = [pc |-> "done", op |-> fn, key |-> k, up |-> up, ret |-> IF done THEN "row" ELSE IF binds THEN "raised" ELSE "TypeError", pre |-> ledger[k], row |-> IF done THEN after[k] ELSE NoRow, status |-> status, s3_key |-> s3_key, error_msg |-> error_msg]]
                                                         /\ RepoFrame
                                                         /\ UNCHANGED fetch

UpdateNext == \E fn \in {"repository", "db"}, k \in RepoKeys, st \in ModelsStatus, o \in OptionalArgs : CallUpdateStatus("c1", fn, k, st, o[1], o[2])

UpdateSpec == UpdateInit /\ [][UpdateNext]_vars


\* ----------------------------------------------------------- claims: ledger

BothClaimed(k) == \A c \in Callers : caller[c].pc = "done" /\ caller[c].op = "claim" /\ caller[c].key = k /\ caller[c].up

Winners(k) == {c \in Callers : caller[c].ret = "true"}

\* C1 as stated: for ANY ledger row, of two concurrent claim calls on its key
\* exactly one returns true and the other false.
C1_AnyRowOneWinner == \A k \in RepoKeys : BothClaimed(k) => Cardinality(Winners(k)) = 1

\* C1 amended: for a ledger row in status QUEUED, of two concurrent claim calls
\* on its key that both reach the store exactly one returns true and the other
\* false, whichever runs first, and the row moves QUEUED -> IN_PROGRESS once:
\* the winner found it QUEUED, the loser found it IN_PROGRESS and left it so.
C1_QueuedRowOneWinner == \A k \in RepoKeys : (BothClaimed(k) /\ (\E f \in Callers : caller[f].pre.status = "QUEUED")) => /\ Cardinality(Winners(k)) = 1
                                                                                                                     /\ \A a \in Callers : caller[a].ret \in {"true", "false"}
                                                                                                                     /\ \A w \in Winners(k) : caller[w].pre.status = "QUEUED"
                                                                                                                     /\ \A o \in Callers \ Winners(k) : caller[o].pre.status = "IN_PROGRESS"
                                                                                                                     /\ ledger[k].status = "IN_PROGRESS"

C1_Witness == \E k \in RepoKeys : BothClaimed(k) /\ caller["c2"].pre.status = "QUEUED" /\ caller["c2"].ret = "true" /\ caller["c1"].ret = "false"

\* C10: a claim call that reaches the store returns true and sets status to
\* IN_PROGRESS (and updated_at) if the row's status is exactly QUEUED; for any
\* other status and for a missing row it returns false, does not raise, and
\* leaves the whole ledger as it was.
C10_ClaimOnlyFromQueued == [][\A c \in Callers : (caller[c].pc = "idle" /\ caller'[c].pc = "done" /\ caller'[c].op = "claim" /\ caller'[c].up) => LET k == caller'[c].key IN IF ledger[k].status = "QUEUED" THEN caller'[c].ret = "true" /\ ledger' = [ledger EXCEPT ![k] = [ledger[k] EXCEPT !.status = "IN_PROGRESS", !.updated_at = now]] ELSE caller'[c].ret = "false" /\ ledger' = ledger]_vars

C10_Witness == \E c \in Callers : caller[c].pc = "done" /\ caller[c].op = "claim" /\ caller[c].up /\ caller[c].ret = "false" /\ caller[c].pre = NoRow /\ ledger[caller[c].key] = NoRow

\* C3: a create on a key whose row exists, by repository.create_report or by
\* the producer's db.create_report, leaves the whole ledger as it was (status,
\* payload, s3_key, created_at, updated_at of the first-written row) and
\* reports created = false.
C3_CreateNeverOverwrites == [][\A c \in Callers : (caller[c].pc = "idle" /\ caller'[c].pc = "done" /\ caller'[c].op \in {"create", "db_create"} /\ caller'[c].up /\ Exists(ledger[caller'[c].key])) => (ledger' = ledger /\ caller'[c].ret = "false")]_vars

\* ---------------------------------------------------------- claims: pipeline

RECURSIVE UploadsUpTo(_, _)
UploadsUpTo(k, t) == IF t < 0 THEN 0 ELSE s3[S3KeyOf(k, t)] + UploadsUpTo(k, t - 1)

\* The number of objects uploaded for the job k.
Uploads(k) == UploadsUpTo(k, MaxClock)

\* C2: however often a job message is delivered, at most one object is
\* uploaded per (report_id, batch_no): only the delivery that claimed the job
\* uploads, every other delivery exits without side effects.
C2_AtMostOneUpload == \A k \in Keys : Uploads(k) <= 1

\* The order of statuses of a job that nothing goes wrong for.
HappySteps == {<<"ABSENT", "CREATED">>, <<"CREATED", "QUEUED">>, <<"QUEUED", "IN_PROGRESS">>, <<"IN_PROGRESS", "UPLOAD_STARTED">>, <<"UPLOAD_STARTED", "FINISHED">>}

\* C4: as long as every ticker was read from the cache and nothing failed,
\* each write to a job's ledger row moves it to the next status of CREATED,
\* QUEUED, IN_PROGRESS, UPLOAD_STARTED, FINISHED (so the statuses written are
\* these, each once, in this order), and the FINISHED row has an s3_key.
C4_StatusesInOrder == [][(~faults') => \A k \in Keys : (ledger'[k] # ledger[k]) => (<<ledger[k].status, ledger'[k].status>> \in HappySteps /\ (ledger'[k].status = "FINISHED" => ledger'[k].s3_key # NoneKey))]_vars

Rank(status) == CASE status = "CREATED" -> 1 [] status = "QUEUED" -> 2 [] status = "IN_PROGRESS" -> 3 [] status = "UPLOAD_STARTED" -> 4 [] status = "FINISHED" -> 5 [] OTHER -> 0

\* C5: under any interleaving of producer and workers, duplicate and
\* redelivered messages included, no write moves a ledger row to an earlier
\* status in the order CREATED < QUEUED < IN_PROGRESS < UPLOAD_STARTED <
\* FINISHED.
C5_StatusNeverMovesBack == [][\A k \in Keys : (Rank(ledger[k].status) > 0 /\ Rank(ledger'[k].status) > 0) => Rank(ledger'[k].status) >= Rank(ledger[k].status)]_vars

\* C6: when a ticker of the job is found neither in the cache nor at the live
\* source, the worker's handling of it ends with the row REJECTED with an
\* error_msg, a message for the job on the dead-letter queue, and the worker
\* not raising.
C6_NotFoundRejects == [][\A w \in Workers : (worker[w].pc = "except" /\ worker[w].exc = "notfound" /\ worker'[w] # worker[w]) => /\ ledger'[WorkerKey(w)].status = "REJECTED"
                                                                                                                             /\ ledger'[WorkerKey(w)].error_msg # NoneMsg
                                                                                                                             /\ \E t \in dlq' : t.leaf = "job" /\ t.key = WorkerKey(w)
                                                                                                                             /\ worker'[w].pc # "raised"]_vars

\* C9: when a record fails with an error other than ticker-not-found, the
\* worker's handling of it writes nothing to the ledger (the row keeps the
\* status it had) and raises out of lambda_handler; after the raise the
\* message is not deleted: it stays in the queue for redelivery, or the queue
\* moves it to the dead-letter queue.
C9_InfraErrorReraised == [][\A w \in Workers : /\ (worker[w].pc = "except" /\ worker[w].exc = "infra" /\ worker'[w] # worker[w]) => (ledger' = ledger /\ worker'[w].pc = "raised" /\ worker'[w].exc = "infra" /\ jobQueue' = jobQueue)
                                               /\ (worker[w].pc = "raised" /\ worker'[w] # worker[w]) => (ledger' = ledger /\ \A k \in Keys : BatchHas(w, k) => (jobQueue'[k] = jobQueue[k] \/ JobText(k) \in dlq'))]_vars

C9_Witness == \E w \in Workers : worker[w].pc = "raised" /\ worker[w].exc = "infra" /\ ledger[WorkerKey(w)].status = "UPLOAD_STARTED" /\ jobQueue[WorkerKey(w)] > 0

\* ------------------------------------------------------- claims: reconciler

\* A dead-letter text that carries a job's report_id and batch_no, raw or
\* wrapped one level in a "body" field.
CarriesJob(t) == t.leaf = "job" /\ t.wraps <= 1

\* C7: for every dead-letter message that carries a job, raw or wrapped one
\* level, the reconciler (the store working) sets that job's row to FAILED
\* with the fixed error_msg and counts the message as processed.
C7_ReconMarksFailed == [][(recon.pc = "loop" /\ recon' # recon /\ CarriesJob(recon.records[recon.idx]) /\ recon'.err # "store") => LET k == ReconKey(recon.records[recon.idx]) IN (ledger'[k].status = "FAILED" /\ ledger'[k].error_msg = FailedMsg /\ recon'.processed = recon.processed + 1)]_vars

\* C8: the reconciler never raises; a message that fails (unparseable body,
\* missing report_id/batch_no, ledger error) is skipped and the loop goes on
\* to the remaining messages, so a returned invocation has gone through its
\* whole batch; processed_messages is the number of messages whose row was
\* set to FAILED.
C8_BadMessageSkipped == /\ recon.pc # "raised"
                        /\ recon.processed = recon.marked
                        /\ recon.pc = "returned" => recon.idx = Len(recon.records)
                        /\ recon.pc = "loop" => recon.idx \in 1 .. Len(recon.records)

C8_Witness == recon.pc = "returned" /\ Len(recon.records) = 2 /\ recon.idx = 2 /\ ReconRaises(recon.records[1], TRUE) = "parse" /\ CarriesJob(recon.records[2])

\* --------------------------------------------- claims: terminal statuses, keys

TerminalStatus == {"FINISHED", "REJECTED", "FAILED"}

\* C11: a row that is in a terminal status (FINISHED, REJECTED, FAILED) keeps
\* its status under every later operation of producer and workers; only rows
\* in a non-terminal status are ever changed.
C11_TerminalStatusKept == [][\A k \in Keys : ledger[k].status \in TerminalStatus => ledger'[k].status = ledger[k].status]_vars

\* ------------------------------------------------------------- claims: fetch

\* The tickers whose fetch has run.
Fetched == {t \in Tickers : fetch.got[t] # NoResult}

\* C12: per ticker, the fetch uses the cached history and does not call the
\* live source when the cache holds a non-empty entry; otherwise it calls the
\* live source and, exactly when that returns non-empty history, writes the
\* entry to the cache and uses it; it ends in ticker-not-found exactly when
\* neither the cache nor the live source yields non-empty history.
C12_CacheThenLive == \A t \in Fetched : LET r == fetch.got[t]
                                            live == fetch.env[t][2]
                                        IN /\ fetch.pre[t] => (r.source = "db" /\ ~r.called_live)
                                           /\ ~fetch.pre[t] => (r.called_live /\ (r.stored <=> live) /\ (live => r.source = "api"))
                                           /\ ~r.found <=> (~fetch.pre[t] /\ ~live)

\* ------------------------------------------------ claims: rows and messages

\* C13: in every reachable state a ledger row that carries an s3_key has
\* status UPLOAD_STARTED or FINISHED.
C13_S3KeyOnlyWhenUploaded == \A k \in Keys : ledger[k].s3_key # NoneKey => ledger[k].status \in {"UPLOAD_STARTED", "FINISHED"}

\* C14: in a batch where some jobs are rejected for an unresolvable ticker,
\* lambda_handler does not raise for the rejection (it raises for
\* infrastructure errors only), and an invocation that returns has gone
\* through every record of its batch.
C14_RejectionDoesNotRaise == \A w \in Workers : /\ worker[w].pc = "raised" => worker[w].exc = "infra"
                                                /\ worker[w].pc = "returned" => worker[w].idx = Len(worker[w].records)

\* The tickers fetch_data was called with.
Requested == {fetch.tickers[n] : n \in DOMAIN fetch.tickers}

\* Every entry of data is the history its own ticker's fetch returned, from
\* the cache (which held it) or from the live source (which returned it).
DataIsReal == \A d \in fetch.data : /\ d[1] \in Requested
                                    /\ fetch.got[d[1]].found
                                    /\ d[2] = fetch.got[d[1]].source
                                    /\ d[2] = "db" => fetch.pre[d[1]]
                                    /\ d[2] = "api" => fetch.env[d[1]][2]
                                    /\ d[2] \in {"db", "api"}

\* The returned mapping has an entry for every requested ticker.
ReturnsAll == fetch.pc = "returned" => {d[1] : d \in fetch.data} = Requested

\* C15 as stated: for ANY set of tickers fetch_data returns a mapping with
\* real history for every requested ticker or raises the ticker-not-found
\* condition.
C15_AnyListAllOrNotFound == /\ DataIsReal
                            /\ ReturnsAll
                            /\ fetch.pc = "raised" => fetch.exc = "TickerNotFoundException"

\* C15 amended: for a NON-EMPTY list of tickers, fetch_data returns a mapping
\* with real (cache or live) history for every requested ticker, or raises
\* the ticker-not-found condition because some requested ticker's fetch
\* failed; which of the two depends only on what each ticker's own fetch
\* meets, not on the order or interleaving of the fetches; the mapping is
\* never partial and holds no entry for a ticker whose fetch failed.
C15_AllOrNotFound == /\ DataIsReal
                     /\ ReturnsAll
                     /\ (fetch.pc = "raised" /\ Len(fetch.tickers) > 0) => (fetch.exc = "TickerNotFoundException" /\ \E t \in Requested : ~fetch.got[t].found)
                     /\ (fetch.pc \in {"returned", "raised"} /\ Len(fetch.tickers) > 0) => (fetch.pc = "returned" <=> \A t \in Requested : (fetch.pre[t] /\ fetch.env[t][1]) \/ (fetch.env[t][2] /\ fetch.env[t][3]))

C15_Witness == fetch.pc = "raised" /\ Len(fetch.tickers) = 2 /\ fetch.got[fetch.tickers[1]].found /\ ~fetch.got[fetch.tickers[2]].found /\ fetch.data = {<<fetch.tickers[1], "api">>}

\* C16: when a job's message is delivered again after an earlier invocation
\* stopped with the job's row IN_PROGRESS, the delivery fails to claim the
\* job: it does not go on to fetch, render and upload, and the row stays
\* IN_PROGRESS.
C16_StuckJobNotRerun == [][(worker["w1"].pc = "mark_in_progress" /\ ledger[WorkerKey("w1")].status = "IN_PROGRESS" /\ worker'["w1"] # worker["w1"]) => (worker'["w1"].pc # "generate" /\ ledger'[WorkerKey("w1")].status = "IN_PROGRESS")]_vars

\* C17: in every reachable state each message in the job queue, and each
\* message a worker holds, names a (report_id, batch_no) whose ledger row
\* exists: the producer writes the row before it sends the message.
C17_RowBeforeMessage == /\ \A k \in Keys : jobQueue[k] > 0 => Exists(ledger[k])
                        /\ \A w \in Workers : worker[w].pc # "idle" => Exists(ledger[WorkerKey(w)])

C17_Witness == \E k \in Keys : jobQueue[k] > 0 /\ ledger[k].status = "CREATED" /\ producer.pc = "mark"

\* C18: the producer's write of QUEUED for a key precedes every worker's
\* write of IN_PROGRESS for that key: when a worker writes IN_PROGRESS, the
\* row is not still CREATED.
C18_QueuedBeforeInProgress == [][\A w \in Workers : (worker[w].pc = "mark_in_progress" /\ worker'[w].pc = "generate") => ledger[WorkerKey(w)].status \notin {"ABSENT", "CREATED"}]_vars

\* No message of the producer's current job exists: none in the job queue,
\* none held by a worker, none in the dead-letter queue.
NeverSent == /\ jobQueue[ProducerKey] = 0
             /\ \A w \in Workers : ~BatchHas(w, ProducerKey)
             /\ \A t \in dlq : t.key # ProducerKey
             /\ ledger[ProducerKey].status = "CREATED"

\* C19: when sending a job's message fails, the producer's handling sets the
\* job's row to FAILED with error_msg "Failed to Send Message to Queue" and
\* the producer goes on (it does not abort); the row is not left in CREATED.
C19_SendFailureMarksFailed == [][(producer.pc = "except" /\ NeverSent /\ producer' # producer) => (ledger'[ProducerKey].status = "FAILED" /\ ledger'[ProducerKey].error_msg = "Failed to Send Message to Queue" /\ producer'.pc # "crashed")]_vars

\* -------------------------------------------------------- claims: liveness

\* C20: with fair scheduling and no failure, every job the producer enqueued
\* eventually reaches a terminal status (FINISHED, REJECTED or FAILED) and
\* stays in a terminal status from then on.
C20_EventuallyTerminal == <>[](producer.pc = "done" /\ \A i \in ReportIds : ledger[<<i, producer.batch_no>>].status \in TerminalStatus)

\* --------------------------------------------------- claims: update, create

\* The caller's call of update_report_status is over, the store having worked.
Updated == caller["c1"].pc = "done" /\ caller["c1"].up

\* C21: update_report_status on an existing row sets status and updated_at,
\* sets s3_key and error_msg exactly when they are passed, leaves payload,
\* created_at, an s3_key/error_msg that was not passed and every other row as
\* they were, and returns the row as it is after the update.
C21_UpdateFrame == (Updated /\ Exists(caller["c1"].pre)) => LET c == caller["c1"]
                                                                 row == ledger[c.key]
                                                             IN /\ c.ret = "row"
                                                                /\ c.row = row
                                                                /\ row.status = c.status
                                                                /\ row.updated_at = now
                                                                /\ row.s3_key = IF c.s3_key # NoneKey THEN c.s3_key ELSE c.pre.s3_key
                                                                /\ row.error_msg = IF c.error_msg # NoneMsg THEN c.error_msg ELSE c.pre.error_msg
                                                                /\ row.payload = c.pre.payload
                                                                /\ row.created_at = c.pre.created_at

\* C27: update_report_status applied to a key that has no row does not
\* create one: every row that exists was written by create and carries a
\* payload and a created_at.
C27_RowsOnlyFromCreate == \A k \in Keys : Exists(ledger[k]) => (ledger[k].payload # NonePayload /\ ledger[k].created_at # NoneTime)

\* ---- the markets table under mark_ticker_as_invalid, refresh and fetch_data

MarketItems == {NoItem, StoredItem(0), MarkedItem(NoItem, 0), MarkedItem(StoredItem(0), 0)}

MarketInit == /\ ledger = [k \in Keys |-> NoRow]
              /\ now \in 1 .. MaxClock
              /\ cache \in [Tickers -> MarketItems]
              /\ jobQueue = [k \in Keys |-> 0]
              /\ dlq = {}
              /\ s3 = [o \in ObjectKeys |-> 0]
              /\ faults = FALSE
              /\ producer = IdleProducer
              /\ worker = [w \in Workers |-> IdleWorker]
              /\ recon = IdleRecon
              /\ caller = [c \in Callers |-> IdleCaller]
              /\ fetch = IdleFetch
              /\ calc = IdleCalc

\* mark_ticker_as_invalid(t).
MarkTickerAsInvalid(t) == /\ cache' = [cache EXCEPT ![t] = MarkedItem(@, now)]
                          /\ UNCHANGED fetch
                          /\ FetchFrame

\* market_data._fetch_and_store(t) of refresh_all: the live history, if it is
\* not empty, is stored (live: the source returns non-empty history and the
\* store works).
FetchAndStore(t, live) == /\ cache' = IF live THEN [cache EXCEPT ![t] = StoredItem(now)] ELSE cache
                          /\ UNCHANGED fetch
                          /\ FetchFrame

MarketNext == \/ \E t \in Tickers : MarkTickerAsInvalid(t)
              \/ \E t \in Tickers, live \in BOOLEAN : FetchAndStore(t, live)
              \/ \E ts \in TickerLists, env \in [Tickers -> FetchEnvs] : FetchStart(ts, env)
              \/ \E t \in Tickers : FetchThread(t)
              \/ FetchCollect
              \/ FetchExit

MarketSpec == MarketInit /\ [][MarketNext]_vars

\* ---- lambda_function.py: calculate_portfolio_metrics and
\* ---- calculate_advanced_metrics on bounded inputs

\* The longest price series of the first ticker, and of the other tickers.
MaxBars == 31

MaxShortBars == 2

\* The most shares of a ticker in a portfolio (0: the ticker is no key of it).
MaxShares == 2

\* The highest close and portfolio value, and the longest lists, that
\* calculate_advanced_metrics is called with.
MaxPrice == 2

MaxValues == 3

MaxBench == 4

\* portfolio.items() in the order of the payload; benchmark='SPY'.
MetricTickers == <<"AAPL", "MSFT", "SPY">>

Benchmark == "SPY"

\* len(data[ticker]) >= 30 and iloc[-30].
CostBasisBars == 30

\* The ticker is not in data.
NoFrame == 0 - 1

\* data[ticker]['Close'] of a frame of n bars: every bar has its own close.
Closes(t, n) == [i \in 1 .. n |-> 100 * (CHOOSE j \in DOMAIN MetricTickers : MetricTickers[j] = t) + i]

\* The dict appended to results for a ticker with at least two bars; day_change
\* as the pair <<numerator, denominator>> of the division.
Position(t, shares, close) == LET n == Len(close)
                                  current_price == close[n]
                                  prev_close == close[n - 1]
                                  cost_basis_price == IF n >= CostBasisBars THEN close[n - CostBasisBars + 1] ELSE close[1]
                              IN [ticker |-> t, shares |-> shares, current_price |-> current_price, day_change |-> <<(current_price - prev_close) * 100, prev_close>>, position_value |-> current_price * shares, cost_basis |-> cost_basis_price * shares]

\* The loop of calculate_portfolio_metrics from the j-th item on.  A frame of
\* one bar has no iloc[-2]: IndexError leaves the function.
RECURSIVE MetricsLoop(_, _, _)
MetricsLoop(args, j, acc) == IF j > Len(MetricTickers) THEN acc
                             ELSE LET t == MetricTickers[j]
                                      shares == args.shares[t]
                                      n == args.bars[t]
                                  IN IF shares = 0 \/ t = Benchmark \/ n = NoFrame \/ n = 0 THEN MetricsLoop(args, j + 1, acc)
                                     ELSE IF n < 2 THEN [acc EXCEPT !.exc = "IndexError"]
                                     ELSE LET p == Position(t, shares, Closes(t, n))
                                          IN MetricsLoop(args, j + 1, [acc EXCEPT !.results = Append(@, p), !.total_value = @ + p.position_value, !.total_cost = @ + p.cost_basis])

calculate_portfolio_metrics(args) == MetricsLoop(args, 1, [results |-> <<>>, total_value |-> 0, total_cost |-> 0, exc |-> "none"])

\* Numbers of the return series, as fractions <<numerator, denominator>> in
\* lowest terms with a positive denominator; <<0, 0>> is what a division by
\* zero gives (numpy's nan or inf, which raises nothing).
RECURSIVE Gcd(_, _)
Gcd(a, b) == IF b = 0 THEN a ELSE Gcd(b, a % b)

Abs(x) == IF x < 0 THEN 0 - x ELSE x

Norm(n, d) == IF d = 0 THEN <<0, 0>> ELSE LET g == Gcd(Abs(n), Abs(d)) IN IF d < 0 THEN <<(0 - n) \div g, (0 - d) \div g>> ELSE <<n \div g, d \div g>>

One == <<1, 1>>

FAdd(a, b) == Norm(a[1] * b[2] + b[1] * a[2], a[2] * b[2])

FSub(a, b) == Norm(a[1] * b[2] - b[1] * a[2], a[2] * b[2])

FMul(a, b) == Norm(a[1] * b[1], a[2] * b[2])

FDiv(a, b) == Norm(a[1] * b[2], a[2] * b[1])

RECURSIVE FSum(_)
FSum(xs) == IF Len(xs) = 0 THEN <<0, 1>> ELSE FAdd(Head(xs), FSum(Tail(xs)))

Mean(xs) == FDiv(FSum(xs), <<Len(xs), 1>>)

\* pd.Series(v).pct_change().dropna() for positive v.
PctChange(v) == IF Len(v) < 2 THEN <<>> ELSE [i \in 1 .. Len(v) - 1 |-> Norm(v[i + 1] - v[i], v[i])]

\* xs.iloc[-k:]: the last k elements, all of xs for k = 0 or k > len(xs).
IlocLast(xs, k) == IF k = 0 \/ k >= Len(xs) THEN xs ELSE SubSeq(xs, Len(xs) - k + 1, Len(xs))

\* np.cov(x, y)[0][1], which divides by len - 1.
Cov(x, y) == FDiv(FSum([i \in 1 .. Len(x) |-> FMul(FSub(x[i], Mean(x)), FSub(y[i], Mean(y)))]), <<Len(x) - 1, 1>>)

\* np.var(y), which divides by len.
Var(y) == FDiv(FSum([i \in 1 .. Len(y) |-> FMul(FSub(y[i], Mean(y)), FSub(y[i], Mean(y)))]), <<Len(y), 1>>)

\* A beta without the test of the variance.
BetaUnguarded(covariance, benchmark_variance) == FDiv(covariance, benchmark_variance)

\* beta = covariance / benchmark_variance if benchmark_variance != 0 else 1.0
Beta(covariance, benchmark_variance) == IF benchmark_variance # <<0, 1>> THEN FDiv(covariance, benchmark_variance) ELSE One

\* benchmark_data is None.
NoBench == [present |-> FALSE, close |-> <<>>]

\* calculate_advanced_metrics(portfolio_values, benchmark_data), its beta.
\* Sharpe ratio, volatility and drawdown are numpy arithmetic on returns, which
\* raises nothing and does not enter beta.
calculate_advanced_metrics(args) == LET returns == PctChange(args.portfolio_values)
                                        benchmark_returns == PctChange(IlocLast(args.benchmark_data.close, Len(args.portfolio_values)))
                                        min_len == IF Len(returns) < Len(benchmark_returns) THEN Len(returns) ELSE Len(benchmark_returns)
                                        returns_aligned == IlocLast(returns, min_len)
                                        benchmark_aligned == IlocLast(benchmark_returns, min_len)
                                    IN IF args.benchmark_data.present /\ Len(args.benchmark_data.close) > 0
                                       THEN IF Len(returns_aligned) > 1 /\ Len(benchmark_aligned) > 1
                                            THEN IF Len(returns_aligned) # Len(benchmark_aligned) THEN [beta |-> One, exc |-> "ValueError"]
                                                 ELSE [beta |-> Beta(Cov(returns_aligned, benchmark_aligned), Var(benchmark_aligned)), exc |-> "none"]
                                            ELSE [beta |-> One, exc |-> "none"]
                                       ELSE [beta |-> One, exc |-> "none"]

RECURSIVE SeqsUpTo(_, _)
SeqsUpTo(S, n) == IF n = 0 THEN {<<>>} ELSE LET shorter == SeqsUpTo(S, n - 1) IN shorter \cup {Append(xs, x) : xs \in {ys \in shorter : Len(ys) = n - 1}, x \in S}

PortfolioArgs == [shares : [{"AAPL", "MSFT", "SPY"} -> 0 .. MaxShares], bars : {b \in [{"AAPL", "MSFT", "SPY"} -> NoFrame .. MaxBars] : b["MSFT"] <= MaxShortBars /\ b["SPY"] <= MaxShortBars}]

AdvancedArgs == [portfolio_values : SeqsUpTo(1 .. MaxPrice, MaxValues), benchmark_data : {NoBench} \cup {[present |-> TRUE, close |-> c] : c \in SeqsUpTo(1 .. MaxPrice, MaxBench)}]

CalcInit == /\ ledger = [k \in Keys |-> NoRow]
            /\ now = 0
            /\ Quiet
            /\ producer = IdleProducer
            /\ worker = [w \in Workers |-> IdleWorker]
            /\ recon = IdleRecon
            /\ caller = [c \in Callers |-> IdleCaller]
            /\ fetch = IdleFetch
            /\ calc \in {[IdleCalc EXCEPT !.pc = "called", !.fn = "calculate_portfolio_metrics", !.args = a] : a \in PortfolioArgs} \cup {[IdleCalc EXCEPT !.pc = "called", !.fn = "calculate_advanced_metrics", !.args = a] : a \in AdvancedArgs}

CalcFrame == UNCHANGED <<ledger, now, cache, jobQueue, dlq, s3, faults, producer, worker, recon, caller, fetch>>

PortfolioMetricsEnds == /\ calc.pc = "called"
                        /\ calc.fn = "calculate_portfolio_metrics"
                        /\ LET r == calculate_portfolio_metrics(calc.args)
                           IN calc' = [calc EXCEPT !.pc = "done", !.exc = r.exc, !.out = IF r.exc = "none" THEN [results |-> r.results, total_value |-> r.total_value, total_cost |-> r.total_cost] ELSE <<>>]
                        /\ CalcFrame

AdvancedMetricsEnds == /\ calc.pc = "called"
                       /\ calc.fn = "calculate_advanced_metrics"
                       /\ LET r == calculate_advanced_metrics(calc.args)
                          IN calc' = [calc EXCEPT !.pc = "done", !.exc = r.exc, !.out = IF r.exc = "none" THEN [beta |-> r.beta] ELSE <<>>]
                       /\ CalcFrame

CalcNext == \/ PortfolioMetricsEnds
            \/ AdvancedMetricsEnds

CalcSpec == CalcInit /\ [][CalcNext]_vars

\* --------------------------------------------------- claims: order of steps

\* C22: within one job the worker's steps are strictly ordered: it writes
\* UPLOAD_STARTED only after the fetch and the render are done, it uploads
\* only after it wrote UPLOAD_STARTED, and it writes FINISHED only after its
\* upload succeeded; every FINISHED row has an s3_key, which names an object
\* that is stored.
C22_StepsInOrder == [][/\ \A w \in Workers : (worker'[w].pc = "mark_upload" /\ worker[w].pc # "mark_upload") => (worker[w].pc = "generate")
                       /\ \A w \in Workers : (worker'[w].pc = "put" /\ worker[w].pc # "put") => (worker[w].pc = "mark_upload" /\ ledger'[WorkerKey(w)].status = "UPLOAD_STARTED")
                       /\ \A w \in Workers : (worker'[w].pc = "mark_finished" /\ worker[w].pc # "mark_finished") => (worker[w].pc = "put" /\ s3'[worker[w].s3_key] > 0)
                       /\ \A w \in Workers : (worker[w].pc = "mark_finished" /\ worker'[w] # worker[w]) => (s3[worker[w].s3_key] > 0)
                       /\ (s3' # s3) => (\E w \in Workers : worker[w].pc = "put" /\ worker'[w].pc = "mark_finished")
                       /\ \A k \in Keys : (ledger'[k].status = "UPLOAD_STARTED" /\ ledger[k].status # "UPLOAD_STARTED") => (\E w \in Workers : worker[w].pc = "mark_upload" /\ WorkerKey(w) = k)
                       /\ \A k \in Keys : (ledger'[k].status = "FINISHED") => (ledger'[k].s3_key # NoneKey /\ s3'[ledger'[k].s3_key] > 0)]_vars

C22_Witness == \E k \in Keys : ledger[k].status = "FINISHED" /\ ledger[k].s3_key = S3KeyOf(k, 0) /\ s3[S3KeyOf(k, 0)] = 2

\* ------------------------------------------- claims: dead-letter round trip

\* C23: the reconciler reads from the serialized delivery record of a job
\* message the same (report_id, batch_no) as from the job message itself; it
\* unwraps one level only, so that a record wrapped twice gives it no key.
C23_UnwrapOneLevel == [][recon.pc = "loop" => LET t == recon.records[recon.idx]
                                              IN /\ \A k \in Keys : t \in {JobText(k), DumpsRecord(JobText(k))} => (recon'.key = k /\ recon'.err \notin {"parse", "unwrap", "keys"})
                                                 /\ (t.wraps > 1) => (recon'.key = NoKey /\ recon'.err = "keys")]_vars

C23_Witness == /\ recon.pc = "returned" /\ recon.idx = 2 /\ recon.key = <<0, 1>>
               /\ recon.records[1] = DumpsRecord(DumpsRecord(JobText(<<0, 1>>)))
               /\ recon.records[2] = DumpsRecord(JobText(<<0, 1>>))

\* ------------------------------------------------- claims: invalid tickers

\* C24: a fetch of a ticker whose item is marked invalid uses neither the
\* item's history nor the live source and ends in ticker-not-found, as long as
\* no store has replaced the item; marking an item invalid changes its
\* is_valid and updated_at only and keeps its bars.
C24_InvalidSkipsLookups == [][/\ \A t \in Tickers : (t \in fetch.running /\ t \notin fetch'.running /\ cache[t].exists /\ ~cache[t].is_valid) => (~fetch'.got[t].found /\ ~fetch'.got[t].called_live /\ cache'[t] = cache[t])
                              /\ \A t \in Tickers : (cache'[t] # cache[t] /\ ~cache'[t].is_valid) => (cache'[t].exists /\ cache'[t].records = cache[t].records /\ cache'[t].updated_at = now)]_vars

\* ------------------------------------------------------- claims: metrics

RECURSIVE SumOf(_, _)
SumOf(results, field) == IF Len(results) = 0 THEN 0 ELSE Head(results)[field] + SumOf(Tail(results), field)

\* C25: calculate_portfolio_metrics returns, for every ticker of the
\* portfolio other than the benchmark that has a price series of n >= 1 bars
\* and s shares, one position with position_value = latest close * s and
\* cost_basis = (the 30th close from the end if n >= 30, else the oldest
\* close) * s; the benchmark has no position, and total_value and total_cost
\* are the sums over the returned positions.
C25_PositionsAndTotals == (calc.pc = "done" /\ calc.fn = "calculate_portfolio_metrics") =>
                              /\ calc.exc = "none"
                              /\ \A j \in DOMAIN MetricTickers :
                                   LET t == MetricTickers[j]
                                       s == calc.args.shares[t]
                                       n == calc.args.bars[t]
                                       c == Closes(t, n)
                                       mine == {i \in DOMAIN calc.out.results : calc.out.results[i].ticker = t}
                                   IN (t # Benchmark /\ s > 0 /\ n >= 1) => /\ Cardinality(mine) = 1
                                                                            /\ \A i \in mine : /\ calc.out.results[i].position_value = c[n] * s
                                                                                               /\ calc.out.results[i].cost_basis = (IF n >= CostBasisBars THEN c[n - CostBasisBars + 1] ELSE c[1]) * s
                              /\ \A i \in DOMAIN calc.out.results : calc.out.results[i].ticker # Benchmark
                              /\ calc.out.total_value = SumOf(calc.out.results, "position_value")
                              /\ calc.out.total_cost = SumOf(calc.out.results, "cost_basis")

\* The number of points at which the portfolio's and the benchmark's return
\* series overlap.
Overlap(values, bench) == IF Len(values) = 0 \/ Len(bench) = 0 THEN 0 ELSE (IF Len(values) < Len(bench) THEN Len(values) ELSE Len(bench)) - 1

\* The benchmark's returns over its last m steps are all the same, so their
\* variance is zero.
FlatReturns(bench, m) == LET w == SubSeq(bench, Len(bench) - m, Len(bench)) IN \A i, j \in 1 .. m : (w[i + 1] - w[i]) * w[j] = (w[j + 1] - w[j]) * w[i]

\* C26: calculate_advanced_metrics raises nothing and returns beta = 1.0
\* whenever the benchmark data is missing or empty, the two return series
\* overlap at fewer than 2 points, or the benchmark's variance is zero.
C26_BetaFallback == (calc.pc = "done" /\ calc.fn = "calculate_advanced_metrics") =>
                        LET values == calc.args.portfolio_values
                            bench == calc.args.benchmark_data
                            m == Overlap(values, bench.close)
                        IN /\ calc.exc = "none"
                           /\ (~bench.present \/ Len(bench.close) = 0 \/ m < 2 \/ FlatReturns(bench.close, m)) => calc.out.beta = One

C26_Witness == /\ calc.pc = "done" /\ calc.fn = "calculate_advanced_metrics"
               /\ calc.args.portfolio_values = <<1, 2, 1>>
               /\ calc.args.benchmark_data = [present |-> TRUE, close |-> <<1, 2, 2, 2>>]
               /\ calc.out.beta = One

====
